---------------------------- MODULE Spec2Model ----------------------------
(***************************************************************************)
(* AgentAuth: the identity-derivation chain of @agentauth/core             *)
(* (parsePrivateKey, deriveAddress, generateId, signPayload,               *)
(* verifySignature) and the stateless verify() of @agentauth/sdk.          *)
(*                                                                         *)
(* Texts are sequences of one-character strings, so that prefixes, widths, *)
(* letter case, hex parsing, base64 and JSON are computed, not assumed.    *)
(* The calls into @noble/secp256k1, @noble/hashes and uuid are modelled by *)
(* a recoverable ECDSA over a cyclic group of small prime order in which   *)
(* a point is written by its discrete logarithm: the algebra of signing    *)
(* and of public-key recovery is the real one, the group is scaled down.   *)
(***************************************************************************)
EXTENDS Integers, Sequences, FiniteSets, TLC

(***************************************************************************)
(* Texts                                                                   *)
(***************************************************************************)
HexLower == <<"0","1","2","3","4","5","6","7","8","9","a","b","c","d","e","f">>
HexUpper == <<"0","1","2","3","4","5","6","7","8","9","A","B","C","D","E","F">>
LettersLower == <<"a","b","c","d","e","f","g","h","i","j","k","l","m",
                  "n","o","p","q","r","s","t","u","v","w","x","y","z">>
LettersUpper == <<"A","B","C","D","E","F","G","H","I","J","K","L","M",
                  "N","O","P","Q","R","S","T","U","V","W","X","Y","Z">>
Digits == <<"0","1","2","3","4","5","6","7","8","9">>

\* The printable ASCII characters, code 32 (space) to 126 (~), in code order.
AsciiPrintable ==
  <<" ","!","\"","#","$","%","&","'","(",")","*","+",",","-",".","/">>
  \o Digits \o <<":",";","<","=",">","?","@">>
  \o LettersUpper \o <<"[","BACKSLASH","]","^","_","BACKTICK">>
  \o LettersLower \o <<"{","|","}","~">>

\* What a byte that is no printable ASCII character decodes to (U+FFFD and
\* the control characters are not told apart).
ReplacementChar == "<?>"

Range(s) == { s[i] : i \in 1..Len(s) }
IndexOf(c, table) == CHOOSE i \in 1..Len(table) : table[i] = c

HexChars == Range(HexLower) \cup Range(HexUpper)
IsHexChar(c) == c \in HexChars
HexVal(c) == IF c \in Range(HexLower) THEN IndexOf(c, HexLower) - 1
                                      ELSE IndexOf(c, HexUpper) - 1
AllHex(s) == \A i \in 1..Len(s) : IsHexChar(s[i])

CharCode(c) == IF c \in Range(AsciiPrintable) THEN 31 + IndexOf(c, AsciiPrintable)
                                              ELSE 255
CharOfCode(n) == IF n >= 32 /\ n <= 126 THEN AsciiPrintable[n - 31]
                                        ELSE ReplacementChar

LowerChar(c) == IF c \in Range(LettersUpper)
                  THEN LettersLower[IndexOf(c, LettersUpper)] ELSE c
UpperChar(c) == IF c \in Range(LettersLower)
                  THEN LettersUpper[IndexOf(c, LettersLower)] ELSE c
\* String.prototype.toLowerCase / toUpperCase
toLowerCase(s) == [i \in 1..Len(s) |-> LowerChar(s[i])]
toUpperCase(s) == [i \in 1..Len(s) |-> UpperChar(s[i])]

\* String.prototype.startsWith / slice(from) / padStart(width, "0")
startsWith(s, p) == Len(s) >= Len(p) /\ SubSeq(s, 1, Len(p)) = p
DropFirst(s, n) == SubSeq(s, n + 1, Len(s))
Repeat(c, n) == [i \in 1..n |-> c]
padStart(s, width, c) == IF Len(s) >= width THEN s
                         ELSE Repeat(c, width - Len(s)) \o s

\* Number.prototype.toString(16): lower-case digits, no leading zero.
RECURSIVE toString16(_)
toString16(n) == IF n < 16 THEN <<HexLower[n + 1]>>
                 ELSE toString16(n \div 16) \o <<HexLower[(n % 16) + 1]>>
\* Fixed-width big-endian hex of a number (Buffer.toString('hex'), n2h).
ToHex(n, width) == padStart(toString16(n), width, "0")

\* Decimal digits of a natural number, and zero-padded.
RECURSIVE toString10(_)
toString10(n) == IF n < 10 THEN <<Digits[n + 1]>>
                 ELSE toString10(n \div 10) \o <<Digits[(n % 10) + 1]>>
Pad10(n, width) == padStart(toString10(n), width, "0")

\* A call either returns a value or throws.
Throw == [threw |-> TRUE]
Ret(v) == [threw |-> FALSE, val |-> v]

\* A JavaScript number that may be NaN: <<n>>, and <<>> for NaN.
NaN == <<>>
Num(n) == <<n>>
IsNaN(x) == x = <<>>

(***************************************************************************)
(* The curve, the hashes and the UUID library, scaled down                 *)
(***************************************************************************)
\* Order of the group (a prime), standing for the order n of secp256k1.
CurveOrder == 32749
\* Range of the stand-in for a Keccak-256 or SHA-1 digest.
HashMod == 46337

\* The value of a text of hex digits, saturating at CurveOrder: every
\* value at or above the group order is out of range for a scalar alike.
\* CurveOrder is below 16^4, so more than four significant digits saturate.
HexToScalar(s) ==
  LET n == Len(s)
      nonzero == { i \in 1..n : s[i] # "0" }
      first == IF nonzero = {} THEN n + 1
               ELSE CHOOSE i \in nonzero : \A j \in nonzero : i <= j
      D(j) == IF n - j >= first THEN HexVal(s[n - j]) ELSE 0
      v == D(0) + 16 * D(1) + 256 * D(2) + 4096 * D(3)
  IN  IF n - first + 1 > 4 \/ v > CurveOrder THEN CurveOrder ELSE v

\* a^e mod m, for m below 2^15.
RECURSIVE PowModM(_, _, _)
PowModM(a, e, m) ==
  IF e = 0 THEN 1
  ELSE LET h == PowModM(a, e \div 2, m)
           q == (h * h) % m
       IN  IF e % 2 = 0 THEN q ELSE (q * (a % m)) % m

\* The digest of a text: the polynomial of its character codes in base 131
\* modulo HashMod, computed by halves.
RECURSIVE PolyHash(_, _, _)
PolyHash(s, lo, hi) ==
  IF lo > hi THEN 0
  ELSE IF lo = hi THEN CharCode(s[lo]) % HashMod
  ELSE LET mid == (lo + hi) \div 2
       IN  (PolyHash(s, lo, mid) * PowModM(131, hi - mid, HashMod)
            + PolyHash(s, mid + 1, hi)) % HashMod
\* keccak_256 of a text, as a number below HashMod.
keccak_256(s) == PolyHash(<<"k">> \o s, 1, Len(s) + 1)
\* SHA-1 of a text, as a number below HashMod.
sha1(s) == PolyHash(<<"s">> \o s, 1, Len(s) + 1)

\* The inverse modulo the prime CurveOrder.
inv(a) == PowModM(a, CurveOrder - 2, CurveOrder)

\* The point a*G is written a.  A point and its negative share the x
\* coordinate and differ in the parity of y.
PointX(a) == IF a <= CurveOrder - a THEN a ELSE CurveOrder - a
PointYOdd(a) == a > CurveOrder - a
\* Point.fromHex('02'|'03' + x): the point with this x and this parity.
PointFromX(x, odd) ==
  IF x >= 1 /\ x <= (CurveOrder - 1) \div 2
    THEN Ret(IF odd THEN CurveOrder - x ELSE x)
    ELSE Throw

\* getPublicKey that multiplies the base point by any scalar.
getPublicKeyUnchecked(d) == Ret(d % CurveOrder)

\* secp.getPublicKey(privateKeyBytes, false)
getPublicKey(d) == IF d >= 1 /\ d < CurveOrder THEN Ret(d) ELSE Throw

\* '0x' + hex(keccak_256(uncompressed coordinates).slice(-20))
AddressOfPoint(a) ==
  <<"0", "x">> \o ToHex((a * 31337 + 4242) % HashMod, 40)

\* secp.sign(messageHash, privateKeyBytes): deterministic nonce, low s.
RECURSIVE SignWithNonce(_, _, _)
SignWithNonce(h, d, k) ==
  LET r == PointX(k) % CurveOrder
      s == (inv(k) * ((h + r * d) % CurveOrder)) % CurveOrder
      rec == IF PointYOdd(k) THEN 1 ELSE 0
  IN  IF r = 0 \/ s = 0
        THEN SignWithNonce(h, d, 1 + (k % (CurveOrder - 1)))
        ELSE IF s > CurveOrder \div 2
               THEN [r |-> r, s |-> CurveOrder - s, recovery |-> 1 - rec]
               ELSE [r |-> r, s |-> s, recovery |-> rec]
secpSign(hash, d) ==
  LET h == hash % CurveOrder
  IN  IF d >= 1 /\ d < CurveOrder
        THEN Ret(SignWithNonce(h, d, 1 + ((d * 131 + h * 17 + 7) % (CurveOrder - 1))))
        ELSE Throw

\* new secp.Signature(r, s).addRecoveryBit(recovery).recoverPublicKey(hash)
\* rec is the recovery id as parsed: Num(n) or NaN.
recoverPublicKey(r, s, rec, hash) ==
  IF ~(r >= 1 /\ r < CurveOrder /\ s >= 1 /\ s < CurveOrder) THEN Throw
  ELSE IF IsNaN(rec) \/ rec[1] \notin {0, 1, 2, 3} THEN Throw
  ELSE LET h == hash % CurveOrder
           recovery == rec[1]
           radj == IF recovery \in {2, 3} THEN r + CurveOrder ELSE r
           R == PointFromX(radj, recovery % 2 = 1)
       IN  IF R.threw THEN Throw
           ELSE LET ir == inv(radj)
                    u1 == ((CurveOrder - h) * ir) % CurveOrder
                    u2 == (s * ir) % CurveOrder
                    Q == (u1 + ((u2 * R.val) % CurveOrder)) % CurveOrder
                IN  IF Q = 0 THEN Throw ELSE Ret(Q)

\* uuidv5(name, namespace): SHA-1 of namespace and name, version 5 layout.
AGENTAUTH_NAMESPACE == <<"2","f","5","a","5","c","4","8">>
uuidv5(name, namespace) ==
  LET h == sha1(namespace \o name)
  IN  ToHex(h, 8) \o <<"-">> \o ToHex(h % 65536, 4) \o <<"-", "5">>
      \o ToHex(h % 4096, 3) \o <<"-", "8">> \o ToHex((h \div 16) % 4096, 3)
      \o <<"-">> \o ToHex(h, 12)

(***************************************************************************)
(* JavaScript built-ins used by the core                                   *)
(***************************************************************************)
IsSpace(c) == c = " "
\* The least index i >= from with s[i] outside the set keep, or Len(s) + 1.
FirstNot(s, from, keep) ==
  LET stop == { i \in from..Len(s) : s[i] \notin keep }
  IN  IF stop = {} THEN Len(s) + 1
      ELSE CHOOSE i \in stop : \A j \in stop : i <= j
TrimStart(s) == DropFirst(s, FirstNot(s, 1, {" "}) - 1)
TrimEnd(s) ==
  LET keep == { i \in 1..Len(s) : ~IsSpace(s[i]) }
  IN  IF keep = {} THEN <<>>
      ELSE SubSeq(s, 1, CHOOSE i \in keep : \A j \in keep : j <= i)

\* The longest prefix of hex digits of s.
HexPrefix(s) == SubSeq(s, 1, FirstNot(s, 1, HexChars) - 1)

\* parseInt(s, 16): leading white space, a sign and a 0x prefix are skipped,
\* then the longest run of hex digits is read and what follows is ignored.
parseInt16(s) ==
  LET t == TrimStart(s)
      neg == t # <<>> /\ Head(t) = "-"
      u == IF t # <<>> /\ Head(t) \in {"+", "-"} THEN Tail(t) ELSE t
      v == IF startsWith(u, <<"0", "x">>) \/ startsWith(u, <<"0", "X">>)
             THEN DropFirst(u, 2) ELSE u
      digs == HexPrefix(v)
  IN  IF digs = <<>> THEN NaN
      ELSE IF neg THEN Num(0 - HexToScalar(digs)) ELSE Num(HexToScalar(digs))

\* BigInt('0x' + s): surrounding white space is trimmed, then every
\* character must be a hex digit, or a SyntaxError is thrown.
BigIntHex(s) ==
  LET t == TrimEnd(s)
  IN  IF t # <<>> /\ AllHex(t) THEN Ret(HexToScalar(t)) ELSE Throw

(***************************************************************************)
(* @agentauth/core                                                         *)
(***************************************************************************)
KeyHexLength == 64
AddressHexLength == 40
SignatureLength == 132

\* parsePrivateKey that knows the 'aa-' prefix only.
parsePrivateKeyTokenOnly(token) ==
  LET cleanHex ==
        IF startsWith(token, <<"a", "a", "-">>) THEN DropFirst(token, 3) ELSE token
  IN  IF Len(cleanHex) = KeyHexLength /\ AllHex(cleanHex)
        THEN Ret(cleanHex) ELSE Throw

\* parsePrivateKey that refuses a scalar that is zero or not below the
\* group order.
parsePrivateKeyInRange(token) ==
  LET cleanHex ==
        IF startsWith(token, <<"a", "a", "-">>) THEN DropFirst(token, 3)
        ELSE IF startsWith(token, <<"0", "x">>) THEN DropFirst(token, 2)
        ELSE token
  IN  IF /\ Len(cleanHex) = KeyHexLength /\ AllHex(cleanHex)
         /\ HexToScalar(cleanHex) >= 1 /\ HexToScalar(cleanHex) < CurveOrder
        THEN Ret(cleanHex) ELSE Throw

\* parsePrivateKey(token)
parsePrivateKey(token) ==
  LET cleanHex ==
        IF startsWith(token, <<"a", "a", "-">>) THEN DropFirst(token, 3)
        ELSE IF startsWith(token, <<"0", "x">>) THEN DropFirst(token, 2)
        ELSE token
  IN  IF Len(cleanHex) = KeyHexLength /\ AllHex(cleanHex)
        THEN Ret(cleanHex) ELSE Throw

\* deriveAddress(privateKey), from the public key on: an invalid scalar
\* makes getPublicKey throw, and the catch block throws anew.
deriveAddressOfPublicKey(publicKeyBytes) ==
  IF publicKeyBytes.threw THEN Throw ELSE Ret(AddressOfPoint(publicKeyBytes.val))
\* deriveAddress(privateKey), from the parsed key on.
deriveAddressOfClean(cleanPrivateKey) ==
  IF cleanPrivateKey.threw THEN Throw
  ELSE deriveAddressOfPublicKey(getPublicKey(HexToScalar(cleanPrivateKey.val)))
\* deriveAddress(privateKey)
deriveAddress(privateKey) == deriveAddressOfClean(parsePrivateKey(privateKey))

\* generateId(address)
generateId(address) == uuidv5(address, AGENTAUTH_NAMESPACE)
(***************************************************************************)
(* JSON values, JSON.stringify and JSON.parse                              *)
(*                                                                         *)
(* An object is the sequence of its <<key, value>> members in insertion    *)
(* order.  Numbers are integers; texts are printable ASCII; the escapes    *)
(* read and written are those of the quote and of the backslash.           *)
(***************************************************************************)
JStr(s) == [t |-> "str", v |-> s]
JNum(n) == [t |-> "num", v |-> n]
JBool(b) == [t |-> "bool", v |-> b]
JNull == [t |-> "null"]
JObj(members) == [t |-> "obj", v |-> members]
JArr(elems) == [t |-> "arr", v |-> elems]
Undefined == [t |-> "undefined"]

Quote == "\""
Backslash == "BACKSLASH"

\* s[lo..hi] with a backslash put before each quote and backslash.
RECURSIVE EscapeRange(_, _, _)
EscapeRange(s, lo, hi) ==
  IF lo > hi THEN <<>>
  ELSE IF lo = hi
    THEN IF s[lo] \in {Quote, Backslash} THEN <<Backslash, s[lo]>> ELSE <<s[lo]>>
  ELSE LET mid == (lo + hi) \div 2
       IN  EscapeRange(s, lo, mid) \o EscapeRange(s, mid + 1, hi)
QuoteText(s) == <<Quote>> \o EscapeRange(s, 1, Len(s)) \o <<Quote>>

NumberText(n) == IF n < 0 THEN <<"-">> \o toString10(0 - n) ELSE toString10(n)

RECURSIVE JSONstringify(_)
RECURSIVE StringifyMembers(_)
RECURSIVE StringifyElements(_)
\* JSON.stringify(value)
JSONstringify(x) ==
  CASE x.t = "str" -> QuoteText(x.v)
    [] x.t = "num" -> NumberText(x.v)
    [] x.t = "bool" -> IF x.v THEN <<"t","r","u","e">> ELSE <<"f","a","l","s","e">>
    [] x.t = "null" -> <<"n","u","l","l">>
    [] x.t = "obj" -> <<"{">> \o StringifyMembers(x.v) \o <<"}">>
    [] x.t = "arr" -> <<"[">> \o StringifyElements(x.v) \o <<"]">>
StringifyMembers(ms) ==
  IF ms = <<>> THEN <<>>
  ELSE QuoteText(Head(ms)[1]) \o <<":">> \o JSONstringify(Head(ms)[2])
       \o (IF Len(ms) > 1 THEN <<",">> \o StringifyMembers(Tail(ms)) ELSE <<>>)
StringifyElements(es) ==
  IF es = <<>> THEN <<>>
  ELSE JSONstringify(Head(es))
       \o (IF Len(es) > 1 THEN <<",">> \o StringifyElements(Tail(es)) ELSE <<>>)

\* Setting property key of an object: an existing key keeps its place.
SetMember(ms, key, val) ==
  IF \E i \in 1..Len(ms) : ms[i][1] = key
    THEN [i \in 1..Len(ms) |-> IF ms[i][1] = key THEN <<key, val>> ELSE ms[i]]
    ELSE Append(ms, <<key, val>>)

\* The parser: each step returns [ok, val, next], next the index after
\* what was read.
Fail == [ok |-> FALSE]
Parsed(v, n) == [ok |-> TRUE, val |-> v, next |-> n]
At(s, i) == IF i <= Len(s) THEN s[i] ELSE "EOF"
SkipWs(s, i) == FirstNot(s, i, {" "})

\* After the opening quote at i - 1: the characters up to the closing
\* quote.  A backslash escapes the next character when an even number of
\* backslashes stands directly before it.
ParseTextFrom(s, i, acc) ==
  LET IsBackslash(c) == c = Backslash
      \* the number of backslashes directly before index j, from i on
      Before(j) ==
        LET other == { k \in i..(j - 1) : s[k] # Backslash }
        IN  IF other = {} THEN j - i
            ELSE j - 1 - (CHOOSE k \in other : \A m \in other : m <= k)
      Escaping(j) == s[j] = Backslash /\ Before(j) % 2 = 0
      closing == { j \in i..Len(s) : s[j] = Quote /\ Before(j) % 2 = 0 }
      close == CHOOSE j \in closing : \A m \in closing : j <= m
      kept == { j \in i..(close - 1) : ~Escaping(j) }
      Nth(n) == CHOOSE j \in kept : Cardinality({ m \in kept : m < j }) = n - 1
  IN  IF closing = {} THEN Fail
      ELSE IF \E j \in i..(close - 1) :
                \/ s[j] = ReplacementChar
                \/ Escaping(j) /\ s[j + 1] \notin {Quote, Backslash}
        THEN Fail
      ELSE Parsed(acc \o [n \in 1..Cardinality(kept) |-> s[Nth(n)]], close + 1)

IsDigit(c) == c \in Range(Digits)
DigitRun(s, i) == FirstNot(s, i, Range(Digits))
RECURSIVE DecimalValue(_, _)
DecimalValue(acc, s) == IF s = <<>> THEN acc
                        ELSE DecimalValue(acc * 10 + (IndexOf(Head(s), Digits) - 1), Tail(s))
ParseNumber(s, i) ==
  LET neg == At(s, i) = "-"
      from == IF neg THEN i + 1 ELSE i
      to == DigitRun(s, from)
      digs == SubSeq(s, from, to - 1)
  IN  IF digs = <<>> THEN Fail
      ELSE IF Len(digs) > 1 /\ Head(digs) = "0" THEN Fail
      ELSE IF At(s, to) \in {".", "e", "E"} THEN Fail
      ELSE Parsed(JNum(IF neg THEN 0 - DecimalValue(0, digs) ELSE DecimalValue(0, digs)), to)

ParseLiteral(s, i, word, val) ==
  IF SubSeq(s, i, i + Len(word) - 1) = word THEN Parsed(val, i + Len(word)) ELSE Fail

RECURSIVE ParseValue(_, _)
RECURSIVE ParseMembers(_, _, _)
RECURSIVE ParseElements(_, _, _)
ParseValue(s, i0) ==
  LET i == SkipWs(s, i0)
      c == At(s, i)
  IN  CASE c = "{" ->
             IF At(s, SkipWs(s, i + 1)) = "}"
               THEN Parsed(JObj(<<>>), SkipWs(s, i + 1) + 1)
               ELSE ParseMembers(s, i + 1, <<>>)
        [] c = "[" ->
             IF At(s, SkipWs(s, i + 1)) = "]"
               THEN Parsed(JArr(<<>>), SkipWs(s, i + 1) + 1)
               ELSE ParseElements(s, i + 1, <<>>)
        [] c = Quote ->
             LET r == ParseTextFrom(s, i + 1, <<>>)
             IN  IF r.ok THEN Parsed(JStr(r.val), r.next) ELSE Fail
        [] c = "t" -> ParseLiteral(s, i, <<"t","r","u","e">>, JBool(TRUE))
        [] c = "f" -> ParseLiteral(s, i, <<"f","a","l","s","e">>, JBool(FALSE))
        [] c = "n" -> ParseLiteral(s, i, <<"n","u","l","l">>, JNull)
        [] c = "-" \/ c \in Range(Digits) -> ParseNumber(s, i)
        [] OTHER -> Fail
\* After "{" or ",": one member, then "," and more members, or "}".
ParseMembers(s, i0, acc) ==
  LET i == SkipWs(s, i0)
  IN  IF At(s, i) # Quote THEN Fail
      ELSE LET k == ParseTextFrom(s, i + 1, <<>>)
           IN  IF ~k.ok THEN Fail
               ELSE LET j == SkipWs(s, k.next)
                    IN  IF At(s, j) # ":" THEN Fail
                        ELSE LET v == ParseValue(s, j + 1)
                             IN  IF ~v.ok THEN Fail
                                 ELSE LET n == SkipWs(s, v.next)
                                          ms == SetMember(acc, k.val, v.val)
                                      IN  IF At(s, n) = "," THEN ParseMembers(s, n + 1, ms)
                                          ELSE IF At(s, n) = "}" THEN Parsed(JObj(ms), n + 1)
                                          ELSE Fail
ParseElements(s, i0, acc) ==
  LET v == ParseValue(s, i0)
  IN  IF ~v.ok THEN Fail
      ELSE LET n == SkipWs(s, v.next)
           IN  IF At(s, n) = "," THEN ParseElements(s, n + 1, Append(acc, v.val))
               ELSE IF At(s, n) = "]" THEN Parsed(JArr(Append(acc, v.val)), n + 1)
               ELSE Fail

\* JSON.parse(text): one value, white space around it, nothing else.
JSONparse(text) ==
  LET v == ParseValue(text, 1)
  IN  IF v.ok /\ SkipWs(text, v.next) = Len(text) + 1 THEN Ret(v.val) ELSE Throw
\* signPayloadEncode with the recovery byte left at 00: the signature
\* that a signer without recovery-id support would write.
signPayloadEncodeNoRecovery(signature) ==
  IF signature.threw THEN Throw
  ELSE Ret(<<"0", "x">>
           \o ToHex(signature.val.r, 64) \o ToHex(signature.val.s, 64)
           \o <<"0", "0">>)
\* signPayload, from the signature on: '0x' + r + s + recovery byte.
signPayloadEncode(signature) ==
  IF signature.threw THEN Throw
  ELSE Ret(<<"0", "x">>
           \o ToHex(signature.val.r, 64) \o ToHex(signature.val.s, 64)
           \o padStart(toString16(signature.val.recovery), 2, "0"))
\* signPayload, from the message hash and the parsed key on.
signPayloadWith(messageHash, cleanPrivateKey) ==
  IF cleanPrivateKey.threw THEN Throw
  ELSE signPayloadEncode(secpSign(messageHash, HexToScalar(cleanPrivateKey.val)))
\* signPayload(payload, privateKey)
signPayload(payload, privateKey) ==
  signPayloadWith(keccak_256(JSONstringify(payload)), parsePrivateKey(privateKey))

\* verifySignatureCompare with the two addresses compared as they are.
verifySignatureCompareExact(recoveredPublicKey, expectedAddress) ==
  IF recoveredPublicKey.threw THEN Throw
  ELSE Ret(AddressOfPoint(recoveredPublicKey.val) = expectedAddress)
\* verifySignatureCompare without the comparison: any recovered key passes.
verifySignatureCompareAny(recoveredPublicKey, expectedAddress) ==
  IF recoveredPublicKey.threw THEN Throw ELSE Ret(TRUE)
\* verifySignature, from the recovered public key on: its address is
\* compared with the expected one, both in lower case.
verifySignatureCompare(recoveredPublicKey, expectedAddress) ==
  IF recoveredPublicKey.threw THEN Throw
  ELSE Ret(toLowerCase(AddressOfPoint(recoveredPublicKey.val))
           = toLowerCase(expectedAddress))
\* verifySignature, from the parsed r, s and recovery id on.
verifySignatureRecover(r, s, recovery, messageHash, expectedAddress) ==
  IF r.threw \/ s.threw THEN Throw
  ELSE verifySignatureCompare(recoverPublicKey(r.val, s.val, recovery, messageHash),
                              expectedAddress)
\* The body of verifySignature's try block: a boolean, or an exception.
verifySignatureTry(signature, payload, expectedAddress) ==
  IF ~(Len(expectedAddress) = 2 + AddressHexLength
       /\ startsWith(expectedAddress, <<"0", "x">>)
       /\ AllHex(DropFirst(expectedAddress, 2)))
    THEN Ret(FALSE)
  ELSE IF ~startsWith(signature, <<"0", "x">>) \/ Len(signature) # SignatureLength
    THEN Ret(FALSE)
  ELSE LET signatureHex == DropFirst(signature, 2)
           r == SubSeq(signatureHex, 1, 64)
           s == SubSeq(signatureHex, 65, 128)
           recoveryHex == SubSeq(signatureHex, 129, 130)
       IN  verifySignatureRecover(BigIntHex(r), BigIntHex(s), parseInt16(recoveryHex),
                                  keccak_256(JSONstringify(payload)), expectedAddress)

\* The catch block taken for a success: an exception gives true.
CatchTrue(outcome) == IF outcome.threw THEN TRUE ELSE outcome.val
\* catch (error) { return false }
CatchFalse(outcome) == IF outcome.threw THEN FALSE ELSE outcome.val
\* verifySignature(signature, payload, expectedAddress)
verifySignature(signature, payload, expectedAddress) ==
  CatchFalse(verifySignatureTry(signature, payload, expectedAddress))

\* recoveredAddress of verifySignature: the address that the signature
\* and the payload recover, or the exception of parsing or of recovery; a
\* signature that is refused for its prefix or length recovers none.
recoveredAddress(signature, payload) ==
  IF ~startsWith(signature, <<"0", "x">>) \/ Len(signature) # SignatureLength
    THEN Throw
  ELSE LET r == BigIntHex(SubSeq(signature, 3, 66))
           s == BigIntHex(SubSeq(signature, 67, 130))
           recovery == parseInt16(SubSeq(signature, 131, 132))
       IN  IF r.threw \/ s.threw THEN Throw
           ELSE LET recoveredPublicKey ==
                      recoverPublicKey(r.val, s.val, recovery,
                                       keccak_256(JSONstringify(payload)))
                IN  IF recoveredPublicKey.threw THEN Throw
                    ELSE Ret(AddressOfPoint(recoveredPublicKey.val))

(***************************************************************************)
(* Buffer (base64, utf-8) and Date                                         *)
(***************************************************************************)
Base64Alphabet == LettersUpper \o LettersLower \o Digits \o <<"+", "/">>
\* The decoder also reads the URL-safe alphabet.
IsBase64Char(c) == c \in Range(Base64Alphabet) \cup {"-", "_"}
SextetOf(c) == IF c = "-" THEN 62 ELSE IF c = "_" THEN 63
               ELSE IndexOf(c, Base64Alphabet) - 1

\* Buffer.from(text).toString('base64')
toBase64(text) ==
  LET n == Len(text)
      B(k) == IF k <= n THEN CharCode(text[k]) ELSE 0
      Out(i) ==
        LET g == (i - 1) \div 4
            pos == (i - 1) % 4
            b0 == B(3 * g + 1)
            b1 == B(3 * g + 2)
            b2 == B(3 * g + 3)
            sextet == CASE pos = 0 -> b0 \div 4
                        [] pos = 1 -> (b0 % 4) * 16 + (b1 \div 16)
                        [] pos = 2 -> (b1 % 16) * 4 + (b2 \div 64)
                        [] pos = 3 -> b2 % 64
        IN  IF (pos = 2 /\ 3 * g + 2 > n) \/ (pos = 3 /\ 3 * g + 3 > n)
              THEN "=" ELSE Base64Alphabet[sextet + 1]
  IN  [i \in 1..(4 * ((n + 2) \div 3)) |-> Out(i)]

\* Buffer.from(text, 'base64').toString('utf-8'): characters outside the
\* alphabet are skipped, decoding stops at the first "=", and it never
\* throws.
fromBase64(text) ==
  LET pads == { i \in 1..Len(text) : text[i] = "=" }
      upto == IF pads = {} THEN text
              ELSE SubSeq(text, 1, (CHOOSE i \in pads : \A j \in pads : i <= j) - 1)
      legal == SelectSeq(upto, IsBase64Char)
      m == Len(legal)
      S(k) == IF k <= m THEN SextetOf(legal[k]) ELSE 0
      Byte(k) ==
        LET g == (k - 1) \div 3
            j == (k - 1) % 3
            s0 == S(4 * g + 1)
            s1 == S(4 * g + 2)
            s2 == S(4 * g + 3)
            s3 == S(4 * g + 4)
        IN  CASE j = 0 -> s0 * 4 + (s1 \div 16)
              [] j = 1 -> (s1 % 16) * 16 + (s2 \div 4)
              [] j = 2 -> (s2 % 4) * 64 + s3
  IN  [k \in 1..((m * 6) \div 8) |-> CharOfCode(Byte(k))]

\* new Date(ms).toISOString(), for a time of day of 1970-01-01.
toISOString(ms) ==
  <<"1","9","7","0","-","0","1","-","0","1","T">>
  \o Pad10(ms \div 3600000, 2) \o <<":">> \o Pad10((ms \div 60000) % 60, 2)
  \o <<":">> \o Pad10((ms \div 1000) % 60, 2) \o <<".">> \o Pad10(ms % 1000, 3)
  \o <<"Z">>

\* Date.parse(text) for the texts toISOString writes: 1970-01-01THH:MM:SS.mmmZ.
\* Every other text is taken as unparseable.
DateParse(text) ==
  LET DigitsAt(from, to) == \A i \in from..to : IsDigit(text[i])
      V(from, to) == DecimalValue(0, SubSeq(text, from, to))
  IN  IF /\ Len(text) = 24
         /\ SubSeq(text, 1, 11) = <<"1","9","7","0","-","0","1","-","0","1","T">>
         /\ DigitsAt(12, 13) /\ text[14] = ":" /\ DigitsAt(15, 16)
         /\ text[17] = ":" /\ DigitsAt(18, 19) /\ text[20] = "."
         /\ DigitsAt(21, 23) /\ text[24] = "Z"
         /\ V(12, 13) <= 23 /\ V(15, 16) <= 59 /\ V(18, 19) <= 59
        THEN Num(V(12, 13) * 3600000 + V(15, 16) * 60000 + V(18, 19) * 1000 + V(21, 23))
        ELSE NaN

\* new Date(x).getTime() for a JSON value or undefined.
DateGetTime(x) ==
  CASE x.t = "undefined" -> NaN
    [] x.t = "null" -> Num(0)
    [] x.t = "num" -> Num(x.v)
    [] x.t = "bool" -> Num(IF x.v THEN 1 ELSE 0)
    [] x.t = "str" -> DateParse(x.v)
    [] OTHER -> NaN

\* The property x[key] of a parsed JSON value: reading a property of null
\* throws a TypeError; a value that is no object has no such property.
GetProperty(x, key) ==
  IF x.t = "null" THEN Throw
  ELSE IF x.t = "obj" /\ \E i \in 1..Len(x.v) : x.v[i][1] = key
    THEN Ret(x.v[CHOOSE i \in 1..Len(x.v) : x.v[i][1] = key][2])
    ELSE Ret(Undefined)

(***************************************************************************)
(* @agentauth/sdk                                                          *)
(***************************************************************************)
SIXTY_SECONDS_IN_MS == 60000

\* A header that the request does not carry.
Absent == <<"undefined">>
\* !x for a header value: undefined and the empty string are falsy.
Falsy(x) == x = Absent \/ x = <<>>

TimestampKey == <<"t","i","m","e","s","t","a","m","p">>

Invalid == [valid |-> FALSE]
Valid(id) == [valid |-> TRUE, agentauth_id |-> id]

\* verifyAccept with the address itself for the identifier.
verifyAcceptUnhashed(agentauth_address) == Ret(Valid(agentauth_address))
\* verify, step 4: the identifier of the address header as it was sent.
verifyAccept(agentauth_address) == Ret(Valid(generateId(agentauth_address)))
\* verifyAge without Math.abs: only timestamps in the past can be too old.
verifyAgePastOnly(requestTimestamp, agentauth_address, freshness, now) ==
  IF ~IsNaN(requestTimestamp) /\ now - requestTimestamp[1] > freshness
    THEN Ret(Invalid)
    ELSE verifyAccept(agentauth_address)
\* verifyAge that looks at timestamps ahead of the clock only: a request
\* never grows too old.
verifyAgeFutureOnly(requestTimestamp, agentauth_address, freshness, now) ==
  IF ~IsNaN(requestTimestamp) /\ requestTimestamp[1] - now > freshness
    THEN Ret(Invalid)
    ELSE verifyAccept(agentauth_address)
\* verify, step 3, from the parsed timestamp on: Math.abs(now -
\* requestTimestamp) > freshness is false when requestTimestamp is NaN.
verifyAge(requestTimestamp, agentauth_address, freshness, now) ==
  IF /\ ~IsNaN(requestTimestamp)
     /\ (IF now >= requestTimestamp[1] THEN now - requestTimestamp[1]
                                       ELSE requestTimestamp[1] - now) > freshness
    THEN Ret(Invalid)
    ELSE verifyAccept(agentauth_address)
\* verify, step 3: new Date(payload.timestamp).getTime()
verifyFreshness(timestamp, agentauth_address, freshness, now) ==
  IF timestamp.threw THEN Throw
  ELSE verifyAge(DateGetTime(timestamp.val), agentauth_address, freshness, now)
\* verifyDecoded with a failure that names the address it was given.
verifyDecodedNamingAddress(payload, agentauth_address, signature, freshness, now) ==
  IF payload.threw THEN Throw
  ELSE IF ~verifySignature(signature, payload.val, agentauth_address)
    THEN Ret([valid |-> FALSE, agentauth_id |-> generateId(agentauth_address)])
  ELSE verifyFreshness(GetProperty(payload.val, TimestampKey),
                       agentauth_address, freshness, now)
\* verifyDecoded that goes on to the freshness check whatever
\* verifySignature returned.
verifyDecodedUnverified(payload, agentauth_address, signature, freshness, now) ==
  IF payload.threw THEN Throw
  ELSE verifyFreshness(GetProperty(payload.val, TimestampKey),
                       agentauth_address, freshness, now)
\* verify, step 2, from the parsed payload on.
verifyDecoded(payload, agentauth_address, signature, freshness, now) ==
  IF payload.threw THEN Throw
  ELSE IF ~verifySignature(signature, payload.val, agentauth_address)
    THEN Ret(Invalid)
  ELSE verifyFreshness(GetProperty(payload.val, TimestampKey),
                       agentauth_address, freshness, now)
\* The body of verify's try block: a result, or an exception.
verifyTry(agentauth_address, signature, payloadB64, freshness, now) ==
  verifyDecoded(JSONparse(fromBase64(payloadB64)),
                agentauth_address, signature, freshness, now)

\* CatchInvalid without the catch block: the exception reaches the caller.
Uncaught(outcome) == outcome
\* catch (error) { return { valid: false } }
CatchInvalid(outcome) == IF outcome.threw THEN Ret(Invalid) ELSE outcome

\* verify without the check of the three headers and without the catch
\* block.
verifyUnguarded(request, options, now) ==
  verifyTry(request.address, request.signature, request.payload,
            IF "freshness" \in DOMAIN options
              THEN options.freshness ELSE SIXTY_SECONDS_IN_MS,
            now)
\* verify(request, options) called when Date.now() is now.  request maps
\* the three header names to a text or to Absent; options is a record
\* with or without the field freshness.
verify(request, options, now) ==
  LET freshness == IF "freshness" \in DOMAIN options
                     THEN options.freshness ELSE SIXTY_SECONDS_IN_MS
      agentauth_address == request.address
      signature == request.signature
      payloadB64 == request.payload
  IN  IF Falsy(agentauth_address) \/ Falsy(signature) \/ Falsy(payloadB64)
        THEN Ret(Invalid)
        ELSE CatchInvalid(verifyTry(agentauth_address, signature, payloadB64,
                                    freshness, now))

(***************************************************************************)
(* The model's inputs                                                      *)
(***************************************************************************)
\* Number of private keys.
NumKeys == 2
\* The clock runs over MaxWindows default freshness windows.
MaxWindows == 2

Text(str) == CASE str = "hello" -> <<"h","e","l","l","o">>
               [] str = "tampered" -> <<"t","a","m","p","e","r","e","d">>
               [] str = "message" -> <<"m","e","s","s","a","g","e">>
               [] str = "soon" -> <<"s","o","o","n">>
               [] str = "invalid-signature" ->
                    <<"i","n","v","a","l","i","d","-","s","i","g","n","a","t","u","r","e">>
               [] str = "invalid-address" ->
                    <<"i","n","v","a","l","i","d","-","a","d","d","r","e","s","s">>
               [] str = "invalid-base64-!@#" ->
                    <<"i","n","v","a","l","i","d","-","b","a","s","e","6","4","-","!","@","#">>

\* The keys: valid scalars, written as AgentAuth tokens.
KeyScalar(i) == 32748 - 1000 * (i - 1)
Token(i) == <<"a", "a", "-">> \o ToHex(KeyScalar(i), KeyHexLength)
Keys == { Token(i) : i \in 1..NumKeys }

\* The instants of the clocks: the multiples of the default window up to
\* MaxWindows of them, each with the millisecond before and after it.
Instants == { t \in { w * SIXTY_SECONDS_IN_MS + d : w \in 0..MaxWindows, d \in {-1, 0, 1} } :
              t >= 0 }
\* The times a client may put in a payload: the earliest and the latest.
SignTimes == { 0, MaxWindows * SIXTY_SECONDS_IN_MS }

\* The payloads a client signs.
FreshPayload(T) == JObj(<< <<TimestampKey, JStr(toISOString(T))>> >>)
MessagePayload(T) == JObj(<< <<Text("message"), JStr(Text("hello"))>>,
                            <<TimestampKey, JStr(toISOString(T))>> >>)
NoTimestampPayload == JObj(<< <<Text("message"), JStr(Text("hello"))>> >>)
BadTimestampPayload == JObj(<< <<TimestampKey, JStr(Text("soon"))>> >>)
\* The payloads that carry no time: chosen by position.
OtherPayloads ==
  <<NoTimestampPayload, BadTimestampPayload, JNull, JNum(5), JArr(<<>>)>>

\* The options verify is called with.
NoOptions == <<>>
OptionSets == { NoOptions } \cup { [freshness |-> 2 * SIXTY_SECONDS_IN_MS] }

(***************************************************************************)
(* What the network can do to a header                                     *)
(***************************************************************************)
HexBodyUpper(x) == SubSeq(x, 1, 2) \o toUpperCase(DropFirst(x, 2))

AddressTampers == {"upperCase", "wrongAddress", "malformed", "noPrefix", "absent", "empty"}
TamperedAddress(how, x) ==
  CASE how = "upperCase" -> HexBodyUpper(x)
    [] how = "wrongAddress" ->
         <<"0", "x">> \o [i \in 1..AddressHexLength |-> Digits[(i % 10) + 1]]
    [] how = "malformed" -> Text("invalid-address")
    [] how = "noPrefix" -> DropFirst(x, 2)
    [] how = "absent" -> Absent
    [] how = "empty" -> <<>>

SignatureTampers == {"flipFirst", "otherR", "otherS", "otherRecovery", "upperCase",
                     "recoveryJunk", "recoverySpace", "otherForm",
                     "truncated", "oversized", "garbage", "absent", "empty"}
\* x with the hexadecimal digit at position i replaced by another one.
OtherDigitAt(x, i) == [x EXCEPT ![i] = IF @ = "a" THEN "b" ELSE "a"]
TamperedSignature(how, x) ==
  CASE how = "flipFirst" -> OtherDigitAt(x, 3)
    [] how = "otherR" -> OtherDigitAt(x, 66)
    [] how = "otherS" -> OtherDigitAt(x, 130)
    [] how = "otherRecovery" -> [x EXCEPT ![Len(x)] = IF @ = "0" THEN "1" ELSE "0"]
    [] how = "upperCase" -> HexBodyUpper(x)
    [] how = "recoveryJunk" -> SubSeq(x, 1, Len(x) - 2) \o <<x[Len(x)], "g">>
    [] how = "recoverySpace" -> SubSeq(x, 1, Len(x) - 2) \o <<" ", x[Len(x)]>>
    [] how = "otherForm" ->
         \* (r, n - s, the other recovery bit)
         SubSeq(x, 1, 66)
         \o ToHex(CurveOrder - HexToScalar(SubSeq(x, 67, 130)), 64)
         \o <<"0", IF x[Len(x)] = "0" THEN "1" ELSE "0">>
    [] how = "truncated" -> SubSeq(x, 1, Len(x) - 1)
    [] how = "oversized" -> x \o <<"0">>
    [] how = "garbage" -> Text("invalid-signature")
    [] how = "absent" -> Absent
    [] how = "empty" -> <<>>

PayloadTampers == {"otherTimestamp", "fieldAdded", "spaced", "notJSON", "notBase64",
                   "absent", "empty"}
TamperedPayload(how, x, T) ==
  CASE how = "otherTimestamp" -> toBase64(JSONstringify(FreshPayload(T)))
    [] how = "fieldAdded" ->
         toBase64(JSONstringify(JObj(<< <<Text("message"), JStr(Text("tampered"))>>,
                                        <<TimestampKey, JStr(toISOString(T))>> >>)))
    [] how = "spaced" -> toBase64(<<" ">> \o fromBase64(x) \o <<" ">>)
    [] how = "notJSON" -> toBase64(Text("hello"))
    [] how = "notBase64" -> Text("invalid-base64-!@#")
    [] how = "absent" -> Absent
    [] how = "empty" -> <<>>

(***************************************************************************)
(* A verifier, a client and the network between them                       *)
(***************************************************************************)
VARIABLES
  now,       \* the verifier's clock, Date.now()
  request,   \* the three AgentAuth headers of the request at the verifier
  signer,    \* the token and the payload the client signed them with
  tamper,    \* what was done to the headers since: <<header, how>>
  options,   \* the options of the last verify call
  result,    \* what the last verify call returned or threw
  phase,     \* "start" (no request yet) or "sent"
  answered,  \* result is verify's answer to request, options and now
  mcp        \* the state of the MCP proxy, or of the example MCP server

vars == <<now, request, signer, tamper, options, result, phase, answered, mcp>>

\* No proxy and no server is running.
NoProcess == <<>>

NoHeaders == [address |-> Absent, signature |-> Absent, payload |-> Absent]
NoSigner == [token |-> <<>>, payload |-> JNull]
Untampered == <<"none", "none">>

\* Headers that carry the token next to the three of the protocol.
ClientHeadersWithToken(token, payload) ==
  [address |-> deriveAddress(token).val,
   signature |-> signPayload(payload, token).val,
   payload |-> toBase64(JSONstringify(payload)),
   token |-> token]

\* The headers a client builds (createMockRequest, generateFreshAuthHeaders).
ClientHeaders(token, payload) ==
  [address |-> deriveAddress(token).val,
   signature |-> signPayload(payload, token).val,
   payload |-> toBase64(JSONstringify(payload))]

Init ==
  /\ now = 0
  /\ request = NoHeaders
  /\ signer = NoSigner
  /\ tamper = Untampered
  /\ options = NoOptions
  /\ result = Ret(Invalid)
  /\ phase = "start"
  /\ answered = FALSE
  /\ mcp = NoProcess

ClientSign(token, payload) ==
  /\ phase = "start"
  /\ request' = ClientHeaders(token, payload)
  /\ signer' = [token |-> token, payload |-> payload]
  /\ tamper' = Untampered
  /\ phase' = "sent"
  /\ answered' = FALSE
  /\ UNCHANGED <<mcp, now, options, result>>

TamperAddress(how) ==
  /\ phase = "sent" /\ tamper = Untampered
  /\ request' = [request EXCEPT !.address = TamperedAddress(how, @)]
  /\ tamper' = <<"address", how>>
  /\ answered' = FALSE
  /\ UNCHANGED <<mcp, now, signer, options, result, phase>>

TamperSignature(how) ==
  /\ phase = "sent" /\ tamper = Untampered
  /\ request' = [request EXCEPT !.signature = TamperedSignature(how, @)]
  /\ tamper' = <<"signature", how>>
  /\ answered' = FALSE
  /\ UNCHANGED <<mcp, now, signer, options, result, phase>>

TamperPayload(how, T) ==
  /\ phase = "sent" /\ tamper = Untampered
  /\ request' = [request EXCEPT !.payload = TamperedPayload(how, @, T)]
  /\ tamper' = <<"payload", how>>
  /\ answered' = FALSE
  /\ UNCHANGED <<mcp, now, signer, options, result, phase>>

\* The answered request is done with; the next one may arrive.
NextRequest ==
  /\ phase = "sent" /\ answered
  /\ request' = NoHeaders
  /\ signer' = NoSigner
  /\ tamper' = Untampered
  /\ options' = NoOptions
  /\ result' = Ret(Invalid)
  /\ phase' = "start"
  /\ answered' = FALSE
  /\ UNCHANGED <<mcp, now>>

\* The network presents the answered request once more, as it was sent.
Replay ==
  /\ phase = "sent" /\ answered /\ tamper = Untampered
  /\ tamper' = <<"request", "replayed">>
  /\ answered' = FALSE
  /\ UNCHANGED <<mcp, now, request, signer, options, result, phase>>

\* Time passes at the verifier.
Tick(t) ==
  /\ t > now
  /\ now' = t
  /\ answered' = FALSE
  /\ UNCHANGED <<mcp, request, signer, tamper, options, result, phase>>

\* A verifier that remembers what it accepted and refuses it the next time.
VerifyOnce(opts) ==
  /\ ~answered
  /\ result' = IF tamper = <<"request", "replayed">> /\ result.val.valid
                 THEN Ret(Invalid)
                 ELSE verify(request, opts, now)
  /\ options' = opts
  /\ answered' = TRUE
  /\ UNCHANGED <<mcp, now, request, signer, tamper, phase>>
\* The server calls verify(request, opts).
Verify(opts) ==
  /\ ~answered
  /\ result' = verify(request, opts, now)
  /\ options' = opts
  /\ answered' = TRUE
  /\ UNCHANGED <<mcp, now, request, signer, tamper, phase>>

Next ==
  \/ \E token \in Keys, T \in SignTimes : ClientSign(token, FreshPayload(T))
  \/ \E token \in Keys, T \in SignTimes : ClientSign(token, MessagePayload(T))
  \/ \E token \in Keys, i \in 1..Len(OtherPayloads) : ClientSign(token, OtherPayloads[i])
  \/ \E how \in AddressTampers : TamperAddress(how)
  \/ \E how \in SignatureTampers : TamperSignature(how)
  \/ \E how \in PayloadTampers, T \in SignTimes : TamperPayload(how, T)
  \/ NextRequest
  \/ Replay
  \/ \E t \in Instants : Tick(t)
  \/ \E opts \in OptionSets : Verify(opts)

Spec == Init /\ [][Next]_vars

(***************************************************************************)
(* signPayload and verifySignature on their own                            *)
(***************************************************************************)
\* The textual forms of a private key that parsePrivateKey accepts.
KeyForms == {"token", "0x", "bare", "upperCase"}
KeyText(i, form) ==
  CASE form = "token" -> Token(i)
    [] form = "0x" -> <<"0", "x">> \o ToHex(KeyScalar(i), KeyHexLength)
    [] form = "bare" -> ToHex(KeyScalar(i), KeyHexLength)
    [] form = "upperCase" -> toUpperCase(ToHex(KeyScalar(i), KeyHexLength))
KeyTexts == { KeyText(i, form) : i \in 1..NumKeys, form \in KeyForms }

\* The payloads that are signed: objects and other JSON values, by position.
HelloPayload == JObj(<< <<Text("message"), JStr(Text("hello"))>> >>)
SignedPayloads ==
  <<HelloPayload, FreshPayload(0), MessagePayload(SIXTY_SECONDS_IN_MS),
    JObj(<<>>), JArr(<<>>), JNum(5), JNull, JStr(Text("hello"))>>

\* The changes to a payload object: a field more, a field less, another
\* value in a field; and any payload replaced by a text.
PayloadChanges == {"fieldAdded", "fieldRemoved", "valueChanged", "replaced"}
CanChange(how, p) ==
  CASE how = "fieldAdded" -> p.t = "obj"
    [] how = "fieldRemoved" -> p.t = "obj" /\ Len(p.v) > 0
    [] how = "valueChanged" -> p.t = "obj" /\ Len(p.v) > 0
    [] how = "replaced" -> TRUE
ChangedPayload(how, p) ==
  CASE how = "fieldAdded" -> JObj(Append(p.v, <<Text("soon"), JBool(TRUE)>>))
    [] how = "fieldRemoved" -> JObj(SubSeq(p.v, 1, Len(p.v) - 1))
    [] how = "valueChanged" ->
         JObj([p.v EXCEPT ![Len(p.v)] = <<@[1], JStr(Text("tampered"))>>])
    [] how = "replaced" -> JStr(Text("tampered"))

\* signPayload(payload, privateKey) with deriveAddress(privateKey): the
\* triple that verifySignature is given.
SignTriple(privateKey, payload) ==
  /\ phase = "start"
  /\ request' = [address |-> deriveAddress(privateKey).val,
                 signature |-> signPayload(payload, privateKey).val,
                 payload |-> payload]
  /\ signer' = [token |-> privateKey, payload |-> payload]
  /\ tamper' = Untampered
  /\ phase' = "sent"
  /\ answered' = FALSE
  /\ UNCHANGED <<mcp, now, options, result>>

ChangeAddress(how) ==
  /\ phase = "sent" /\ tamper = Untampered
  /\ request' = [request EXCEPT !.address = TamperedAddress(how, @)]
  /\ tamper' = <<"address", how>>
  /\ answered' = FALSE
  /\ UNCHANGED <<mcp, now, signer, options, result, phase>>

ChangeSignature(how) ==
  /\ phase = "sent" /\ tamper = Untampered
  /\ request' = [request EXCEPT !.signature = TamperedSignature(how, @)]
  /\ tamper' = <<"signature", how>>
  /\ answered' = FALSE
  /\ UNCHANGED <<mcp, now, signer, options, result, phase>>

ChangePayload(how) ==
  /\ phase = "sent" /\ tamper = Untampered
  /\ CanChange(how, request.payload)
  /\ request' = [request EXCEPT !.payload = ChangedPayload(how, @)]
  /\ tamper' = <<"payload", how>>
  /\ answered' = FALSE
  /\ UNCHANGED <<mcp, now, signer, options, result, phase>>

\* verifySignature(signature, payload, expectedAddress)
CheckSignature ==
  /\ phase = "sent" /\ ~answered
  /\ result' = Ret(verifySignature(request.signature, request.payload, request.address))
  /\ answered' = TRUE
  /\ UNCHANGED <<mcp, now, request, signer, tamper, options, phase>>

\* The triple is done with; the next one may be signed.
NextTriple ==
  /\ phase = "sent" /\ answered
  /\ request' = NoHeaders
  /\ signer' = NoSigner
  /\ tamper' = Untampered
  /\ result' = Ret(FALSE)
  /\ phase' = "start"
  /\ answered' = FALSE
  /\ UNCHANGED <<mcp, now, options>>

InitSig ==
  /\ now = 0
  /\ request = NoHeaders
  /\ signer = NoSigner
  /\ tamper = Untampered
  /\ options = NoOptions
  /\ result = Ret(FALSE)
  /\ phase = "start"
  /\ answered = FALSE
  /\ mcp = NoProcess

NextSig ==
  \/ \E privateKey \in KeyTexts, i \in 1..Len(SignedPayloads) :
       SignTriple(privateKey, SignedPayloads[i])
  \/ \E how \in AddressTampers \ {"absent"} : ChangeAddress(how)
  \/ \E how \in SignatureTampers \ {"absent"} : ChangeSignature(how)
  \/ \E how \in PayloadChanges : ChangePayload(how)
  \/ CheckSignature
  \/ NextTriple

SpecSig == InitSig /\ [][NextSig]_vars

(***************************************************************************)
(* The functions of a private key on their own                             *)
(***************************************************************************)
\* deriveFromToken(agentauth_token) of the SDK
deriveFromToken(agentauth_token) ==
  LET agentauth_address == deriveAddress(agentauth_token)
  IN  IF agentauth_address.threw THEN Throw
      ELSE Ret([agentauth_id |-> generateId(agentauth_address.val),
                agentauth_address |-> agentauth_address.val])

\* generateIdentity of the core that leaves the 'aa-' prefix off the token.
coreGenerateIdentityBare(algorithm, privateKeyBytes) ==
  IF algorithm # "secp256k1" THEN Throw
  ELSE LET agentauth_token == ToHex(privateKeyBytes, KeyHexLength)
           agentauth_address == deriveAddress(agentauth_token)
       IN  IF agentauth_address.threw THEN Throw
           ELSE Ret([agentauth_token |-> agentauth_token,
                     agentauth_address |-> agentauth_address.val,
                     agentauth_id |-> generateId(agentauth_address.val)])

\* generateIdentity(algorithm) of the core, for the scalar that
\* secp.utils.randomPrivateKey() returns.
coreGenerateIdentity(algorithm, privateKeyBytes) ==
  IF algorithm # "secp256k1" THEN Throw
  ELSE LET agentauth_token == <<"a", "a", "-">> \o ToHex(privateKeyBytes, KeyHexLength)
           agentauth_address == deriveAddress(agentauth_token)
       IN  IF agentauth_address.threw THEN Throw
           ELSE Ret([agentauth_token |-> agentauth_token,
                     agentauth_address |-> agentauth_address.val,
                     agentauth_id |-> generateId(agentauth_address.val)])

\* generateIdentity() of the SDK: the token and the id of the core's
\* record, and the address derived from the token once more.
generateIdentity(privateKeyBytes) ==
  LET core == coreGenerateIdentity("secp256k1", privateKeyBytes)
  IN  IF core.threw \/ deriveAddress(core.val.agentauth_token).threw THEN Throw
      ELSE Ret([agentauth_token |-> core.val.agentauth_token,
                agentauth_id |-> core.val.agentauth_id,
                agentauth_address |-> deriveAddress(core.val.agentauth_token).val])

\* The 64 hexadecimal characters h of a scalar, written in one of the forms.
Encode(form, h) ==
  CASE form = "token" -> <<"a", "a", "-">> \o h
    [] form = "0x" -> <<"0", "x">> \o h
    [] form = "bare" -> h
    [] form = "upperCase" -> toUpperCase(h)

\* The texts given for a private key: the keys, zero, the group order and
\* a scalar above it in every form, and texts of another shape.
KeyInputs ==
  LET h1 == ToHex(KeyScalar(1), KeyHexLength)
      scalars == { KeyScalar(i) : i \in 1..NumKeys } \cup {0, CurveOrder, 65536}
  IN  { Encode(form, ToHex(n, KeyHexLength)) : form \in KeyForms, n \in scalars }
      \cup { <<>>, Text("invalid-address"), <<"a", "a", "-">>, <<"0", "x", "1", "2", "3">>,
             DropFirst(h1, 1), h1 \o <<"0">>, [h1 EXCEPT ![1] = "g"],
             <<" ">> \o h1, h1 \o <<" ">>,
             <<"a", "a", "-", "0", "x">> \o h1, <<"0", "x", "a", "a", "-">> \o h1,
             <<"a", "a", "-", "a", "a", "-">> \o h1, <<"0", "x", "0", "x">> \o h1,
             <<"A", "A", "-">> \o h1, <<"0", "X">> \o h1, <<"b", "b", "-">> \o h1,
             <<"a", "a", "-">> \o DropFirst(h1, 3), <<"0", "x">> \o DropFirst(h1, 2) }

\* One of the functions is applied to a text, and returns or throws.
Apply(operation, privateKey, payload, outcome) ==
  /\ phase = "start"
  /\ phase' = operation
  /\ signer' = [token |-> privateKey, payload |-> payload]
  /\ result' = outcome
  /\ answered' = TRUE
  /\ UNCHANGED <<mcp, now, request, tamper, options>>

\* The outcome is done with.
Done ==
  /\ phase # "start"
  /\ phase' = "start"
  /\ signer' = NoSigner
  /\ result' = Ret(Invalid)
  /\ answered' = FALSE
  /\ UNCHANGED <<mcp, now, request, tamper, options>>

NextKeys ==
  \/ \E text \in KeyInputs :
       Apply("parsePrivateKey", text, JNull, parsePrivateKey(text))
  \/ \E text \in KeyInputs :
       Apply("deriveAddress", text, JNull, deriveAddress(text))
  \/ \E text \in KeyInputs :
       Apply("deriveFromToken", text, JNull, deriveFromToken(text))
  \/ \E text \in KeyInputs, T \in SignTimes :
       Apply("signPayload", text, FreshPayload(T), signPayload(FreshPayload(T), text))
  \/ \E algorithm \in {"secp256k1", "unsupported"},
        privateKeyBytes \in { KeyScalar(i) : i \in 1..NumKeys } \cup {1, 12345} :
       Apply("coreGenerateIdentity", <<>>, JNull,
             coreGenerateIdentity(algorithm, privateKeyBytes))
  \/ \E privateKeyBytes \in { KeyScalar(i) : i \in 1..NumKeys } \cup {1, 12345} :
       Apply("generateIdentity", <<>>, JNull, generateIdentity(privateKeyBytes))
  \/ Done

SpecKeys == Init /\ [][NextKeys]_vars

(***************************************************************************)
(* The proxy's AuthRefreshTransportWrapper and globalThis.fetch            *)
(*                                                                         *)
(* A function that globalThis.fetch may hold is written as a number: 0 is  *)
(* the fetch of the runtime, w > 0 the function that the w-th wrapper's    *)
(* interceptFetch installed.  mcp.sent is the method and the time of the   *)
(* last request that reached the runtime's fetch and the function that     *)
(* globalThis.fetch held when it was made, request its AgentAuth headers,  *)
(* signer the token and payload they were made of.                         *)
(***************************************************************************)
MaxWrappers == 2
\* The methods of the requests of a transport: the SSE stream and the
\* message stream are opened by GET, messages are sent by POST, a session
\* is ended by DELETE; "undefined" is a call of fetch without init.
Methods == {"GET", "POST", "DELETE", "undefined"}

InitFetch ==
  /\ now = 0
  /\ request = NoHeaders
  /\ signer = NoSigner
  /\ tamper = Untampered
  /\ options = NoOptions
  /\ result = Ret(Invalid)
  /\ phase = "start"
  /\ answered = FALSE
  /\ mcp = [fetch |-> 0, wrappers |-> <<>>, sent |-> <<>>]

\* new AuthRefreshTransportWrapper(transport, token), as connectToRemoteServer
\* does for a connected transport when a token is given.
AuthRefreshTransportWrapper(token) ==
  /\ Len(mcp.wrappers) < MaxWrappers
  /\ mcp' = [mcp EXCEPT
               !.wrappers = Append(@, [token |-> token, originalFetch |-> mcp.fetch,
                                       closed |-> FALSE]),
               !.fetch = Len(mcp.wrappers) + 1]
  /\ UNCHANGED <<now, request, signer, tamper, options, result, phase, answered>>

\* wrapper.close()
AuthRefreshTransportWrapperClose(w) ==
  /\ w \in DOMAIN mcp.wrappers
  /\ mcp' = [mcp EXCEPT !.fetch = mcp.wrappers[w].originalFetch,
                        !.wrappers[w].closed = TRUE]
  /\ UNCHANGED <<now, request, signer, tamper, options, result, phase, answered>>

\* globalThis.fetch(input, init) is called with the method given and no
\* AgentAuth headers: the function in place runs, an interceptor sets the
\* fresh headers on a POST and calls the fetch it saved, until the fetch of
\* the runtime sends the request.
globalThisFetch(method) ==
  LET RECURSIVE interceptFetch(_, _)
      interceptFetch(f, init) ==
        IF f = 0 THEN init
        ELSE IF method = "POST"
          THEN interceptFetch(mcp.wrappers[f].originalFetch,
                              [headers |-> ClientHeaders(mcp.wrappers[f].token,
                                                         FreshPayload(now)),
                               signer |-> [token |-> mcp.wrappers[f].token,
                                           payload |-> FreshPayload(now)]])
          ELSE interceptFetch(mcp.wrappers[f].originalFetch, init)
      newInit == interceptFetch(mcp.fetch, [headers |-> NoHeaders, signer |-> NoSigner])
  IN  /\ request' = newInit.headers
      /\ signer' = newInit.signer
      /\ mcp' = [mcp EXCEPT !.sent = <<method, now, mcp.fetch>>]
      /\ UNCHANGED <<now, tamper, options, result, phase, answered>>

NextFetch ==
  \/ \E token \in Keys : AuthRefreshTransportWrapper(token)
  \/ \E w \in 1..MaxWrappers : AuthRefreshTransportWrapperClose(w)
  \/ \E method \in Methods : globalThisFetch(method)
  \/ \E t \in Instants : Tick(t)

SpecFetch == InitFetch /\ [][NextFetch]_vars

(***************************************************************************)
(* mcpProxy: the two transports and the handlers set on them               *)
(*                                                                         *)
(* A message is its method ("undefined" for a response) and the name of    *)
(* params.clientInfo, a sequence of the pieces of text it is made of       *)
(* (Absent without clientInfo).  mcp.received and mcp.sent are the         *)
(* messages each transport delivered to its onmessage handler and the      *)
(* messages given to its send, in order.  mcp.reported are the transports  *)
(* that reported close of themselves, mcp.closeCalls counts the calls of   *)
(* close() on each transport, mcp.closing are the transports with a close  *)
(* event still to deliver, mcp.first is the transport whose onclose ran    *)
(* first, mcp.handled counts the runs of each onclose handler.             *)
(***************************************************************************)
MaxMessages == 2

\* mcpProxy({ transportToClient, transportToServer }): the flags as declared.
mcpProxy ==
  /\ mcp = NoProcess
  /\ mcp' = [transportToClientClosed |-> FALSE,
             transportToServerClosed |-> FALSE,
             received |-> [client |-> <<>>, server |-> <<>>],
             sent |-> [client |-> <<>>, server |-> <<>>],
             reported |-> {},
             closing |-> {},
             closeCalls |-> [client |-> 0, server |-> 0],
             handled |-> [client |-> 0, server |-> 0],
             first |-> "none"]
  /\ UNCHANGED <<now, request, signer, tamper, options, result, phase, answered>>

\* transportToClient.onmessage(message): the name of clientInfo of an
\* initialize message gets ' (via agentauth-mcp 0.1.0)' appended, then
\* transportToServer.send(message).
transportToClientOnMessage(message) ==
  /\ mcp # NoProcess
  /\ Len(mcp.received.client) < MaxMessages
  /\ mcp' = [mcp EXCEPT
               !.received.client = Append(@, message),
               !.sent.server = Append(@,
                 IF message.method = "initialize" /\ message.clientInfo # Absent
                   THEN [message EXCEPT
                           !.clientInfo = @ \o <<" (via agentauth-mcp ", "0.1.0", ")">>]
                   ELSE message)]
  /\ UNCHANGED <<now, request, signer, tamper, options, result, phase, answered>>

\* transportToServer.onmessage(message): transportToClient.send(message).
transportToServerOnMessage(message) ==
  /\ mcp # NoProcess
  /\ Len(mcp.received.server) < MaxMessages
  /\ mcp' = [mcp EXCEPT !.received.server = Append(@, message),
                        !.sent.client = Append(@, message)]
  /\ UNCHANGED <<now, request, signer, tamper, options, result, phase, answered>>

\* transportToClient.onclose(): the local transport reports close of
\* itself (once), or delivers the close event of a close() call.
transportToClientOnClose ==
  /\ mcp # NoProcess
  /\ "client" \in mcp.closing \/ "client" \notin mcp.reported
  /\ LET m == [mcp EXCEPT
                 !.closing = @ \ {"client"},
                 !.reported = IF "client" \in mcp.closing THEN @ ELSE @ \cup {"client"},
                 !.handled.client = @ + 1,
                 !.first = IF @ = "none" THEN "client" ELSE @]
     IN  mcp' = IF mcp.transportToServerClosed THEN m
                ELSE [m EXCEPT !.transportToClientClosed = TRUE,
                               !.closeCalls.server = @ + 1,
                               !.closing = @ \cup {"server"}]
  /\ UNCHANGED <<now, request, signer, tamper, options, result, phase, answered>>

\* transportToServer.onclose() without the test of transportToClientClosed.
transportToServerOnCloseUnguarded ==
  /\ mcp # NoProcess
  /\ "server" \in mcp.closing \/ "server" \notin mcp.reported
  /\ mcp' = [mcp EXCEPT
               !.closing = (@ \ {"server"}) \cup {"client"},
               !.reported = IF "server" \in mcp.closing THEN @ ELSE @ \cup {"server"},
               !.handled.server = @ + 1,
               !.first = IF @ = "none" THEN "server" ELSE @,
               !.transportToServerClosed = TRUE,
               !.closeCalls.client = @ + 1]
  /\ UNCHANGED <<now, request, signer, tamper, options, result, phase, answered>>

\* transportToServer.onclose()
transportToServerOnClose ==
  /\ mcp # NoProcess
  /\ "server" \in mcp.closing \/ "server" \notin mcp.reported
  /\ LET m == [mcp EXCEPT
                 !.closing = @ \ {"server"},
                 !.reported = IF "server" \in mcp.closing THEN @ ELSE @ \cup {"server"},
                 !.handled.server = @ + 1,
                 !.first = IF @ = "none" THEN "server" ELSE @]
     IN  mcp' = IF mcp.transportToClientClosed THEN m
                ELSE [m EXCEPT !.transportToServerClosed = TRUE,
                               !.closeCalls.client = @ + 1,
                               !.closing = @ \cup {"client"}]
  /\ UNCHANGED <<now, request, signer, tamper, options, result, phase, answered>>

NextPipe ==
  \/ mcpProxy
  \/ \E message \in { [method |-> "initialize", clientInfo |-> <<"client">>],
                      [method |-> "initialize", clientInfo |-> Absent],
                      [method |-> "tools/call", clientInfo |-> Absent],
                      [method |-> "undefined", clientInfo |-> Absent] } :
       \/ transportToClientOnMessage(message)
       \/ transportToServerOnMessage(message)
  \/ transportToClientOnClose
  \/ transportToServerOnClose

SpecPipe == Init /\ [][NextPipe]_vars

(***************************************************************************)
(* The connect command and connectToRemoteServer                           *)
(*                                                                         *)
(* mcp.pc is "call" while an invocation of connectToRemoteServer is to     *)
(* run with the arguments mcp.strategy and mcp.recursionReasons,           *)
(* "connected" when the call of the command returned a transport,          *)
(* "exit" when the process exited.  mcp.attempts are the transports        *)
(* created for a connection, in order, each with the error its start or    *)
(* its probe ended with ("none" when both succeeded).  An error is one     *)
(* whose message names 404, 405 or a protocol error, written "404", or     *)
(* any other, written "ECONNREFUSED".  The command is taken from the       *)
(* point where its server_url has passed validateServerUrlSecurity.        *)
(***************************************************************************)
\* The handler of 'connect <server_url>' without the early validation of
\* the token.
connectUnvalidated(token, transportStrategy) ==
  /\ mcp = NoProcess
  /\ mcp' = [token |-> token,
             transportStrategy |-> transportStrategy,
             strategy |-> transportStrategy,
             recursionReasons |-> {},
             calls |-> 0,
             attempts |-> <<>>,
             wrapped |-> FALSE,
             pc |-> "call",
             exitCode |-> 0,
             stderr |-> ""]
  /\ UNCHANGED <<now, request, signer, tamper, options, result, phase, answered>>

\* The handler of 'connect <server_url>', up to the call of
\* connectToRemoteServer: the token of the environment is validated early.
connect(token, transportStrategy) ==
  /\ mcp = NoProcess
  /\ mcp' = [token |-> token,
             transportStrategy |-> transportStrategy,
             strategy |-> transportStrategy,
             recursionReasons |-> {},
             calls |-> 0,
             attempts |-> <<>>,
             wrapped |-> FALSE,
             pc |-> IF ~Falsy(token) /\ deriveAddress(token).threw THEN "exit" ELSE "call",
             exitCode |-> IF ~Falsy(token) /\ deriveAddress(token).threw THEN 1 ELSE 0,
             stderr |-> IF ~Falsy(token) /\ deriveAddress(token).threw
                          THEN "Error: Invalid AGENTAUTH_TOKEN format." ELSE ""]
  /\ UNCHANGED <<now, request, signer, tamper, options, result, phase, answered>>

\* connectToRemoteServer that does not record its fallback in
\* recursionReasons (followed for at most five calls).
connectToRemoteServerUnrecorded(start, probe) ==
  /\ mcp # NoProcess
  /\ mcp.pc = "call"
  /\ mcp.calls < 5
  /\ LET useSSE == mcp.strategy \in {"sse-only", "sse-first"}
         shouldAttemptFallback == mcp.strategy \in {"http-first", "sse-first"}
         error == IF start # "ok" THEN start
                  ELSE IF ~useSSE /\ probe # "ok" THEN probe ELSE "none"
         tried == [mcp EXCEPT
                     !.calls = @ + 1,
                     !.attempts = Append(@, [transport |-> IF useSSE THEN "sse" ELSE "http",
                                             error |-> error])]
     IN  mcp' =
           IF error = "none"
             THEN [tried EXCEPT !.pc = "connected", !.wrapped = ~Falsy(mcp.token)]
           ELSE IF shouldAttemptFallback /\ error = "404"
             THEN IF start = "ok" THEN [tried EXCEPT !.strategy = "sse-only"] ELSE tried
           ELSE [tried EXCEPT !.pc = "exit", !.exitCode = 1,
                              !.stderr = "Failed to connect to the remote server:"]
  /\ UNCHANGED <<now, request, signer, tamper, options, result, phase, answered>>

\* One invocation of connectToRemoteServer(serverUrl, strategy,
\* recursionReasons, token), for the outcomes of transport.start() and of
\* the HTTP probe: it calls itself, returns the transport (wrapped when a
\* token is given) to the command, or throws to the command, which prints
\* 'Failed to connect to the remote server:' and exits.
connectToRemoteServer(start, probe) ==
  /\ mcp # NoProcess
  /\ mcp.pc = "call"
  /\ LET fellBack == "falling-back-to-alternate-transport" \in mcp.recursionReasons
         useSSE == mcp.strategy = "sse-only" \/ (mcp.strategy = "sse-first" /\ ~fellBack)
         useHTTP == mcp.strategy = "http-only" \/ (mcp.strategy = "http-first" /\ ~fellBack)
         shouldAttemptFallback == mcp.strategy \in {"http-first", "sse-first"} /\ ~fellBack
         error == IF start # "ok" THEN start
                  ELSE IF ~useSSE /\ probe # "ok" THEN probe ELSE "none"
         called == [mcp EXCEPT !.calls = @ + 1]
         tried == [called EXCEPT
                     !.attempts = Append(@, [transport |-> IF useSSE THEN "sse" ELSE "http",
                                             error |-> error])]
         fallback == [tried EXCEPT
                        !.recursionReasons = @ \cup {"falling-back-to-alternate-transport"}]
     IN  mcp' =
           IF ~useSSE /\ ~useHTTP
             THEN [called EXCEPT !.strategy = IF mcp.strategy = "sse-first"
                                                THEN "http-only" ELSE "sse-only"]
           ELSE IF error = "none"
             THEN [tried EXCEPT !.pc = "connected", !.wrapped = ~Falsy(mcp.token)]
           ELSE IF shouldAttemptFallback /\ error = "404"
             THEN IF start = "ok" THEN [fallback EXCEPT !.strategy = "sse-only"]
                  ELSE fallback
           ELSE [tried EXCEPT !.pc = "exit", !.exitCode = 1,
                              !.stderr = "Failed to connect to the remote server:"]
  /\ UNCHANGED <<now, request, signer, tamper, options, result, phase, answered>>

NextConnect ==
  \/ \E token \in { Absent, <<>>, Token(1), Encode("0x", ToHex(KeyScalar(NumKeys), KeyHexLength)),
                    Encode("token", ToHex(0, KeyHexLength)),
                    <<"i", "n", "v", "a", "l", "i", "d", "-", "t", "o", "k", "e", "n">> },
        transportStrategy \in {"sse-only", "http-only", "sse-first", "http-first"} :
       connect(token, transportStrategy)
  \/ \E start \in {"ok", "404", "ECONNREFUSED"}, probe \in {"ok", "404", "ECONNREFUSED"} :
       connectToRemoteServer(start, probe)

SpecConnect == Init /\ [][NextConnect]_vars

\* Every promise the proxy awaits is settled: the call goes on.
SpecConnectFair == SpecConnect /\ WF_vars(NextConnect)

(***************************************************************************)
(* The example MCP server (weather server)                                 *)
(*                                                                         *)
(* mcp.transports are the transports of the server, each with its          *)
(* sessionAuthContext; mcp.currentTransport is server._currentTransport    *)
(* (0 while it is not set).  req.auth, and so a sessionAuthContext, is     *)
(* written as the verify result of the request, and as Invalid where the   *)
(* code leaves it undefined; the null that getAuthForCurrentRequest        *)
(* returns is written Invalid as well.  mcp.pending are the tool calls     *)
(* that a route handler has passed to its transport and whose tool         *)
(* handler has not started, each with the result of the middleware for     *)
(* the request that delivered it; mcp.handled are the calls whose handler  *)
(* has run, with what the handler read.  The route handlers reach the      *)
(* tool handler through an awaited call of the MCP library, so a handler   *)
(* starts at any point after its route handler: at once, or after the      *)
(* route handlers of other requests have run.                              *)
(***************************************************************************)
MaxSessions == 2

\* app.use(async (req, _res, next) => ...): the value of req.auth.
agentAuthMiddleware(headers) ==
  LET authResult == verify(headers, NoOptions, now).val
  IN  IF authResult.valid THEN authResult ELSE Invalid

\* The server starts with TRANSPORT_MODE 'http' or 'sse'.
listen(TRANSPORT_MODE) ==
  /\ mcp = NoProcess
  /\ mcp' = [mode |-> TRANSPORT_MODE,
             transports |-> IF TRANSPORT_MODE = "http" THEN <<Invalid>> ELSE <<>>,
             currentTransport |-> 0,
             pending |-> <<>>,
             handled |-> <<>>]
  /\ UNCHANGED <<now, request, signer, tamper, options, result, phase, answered>>

\* app.get("/mcp/sse"): a new session with its transport.
appGetMcpSse ==
  /\ mcp # NoProcess /\ "pending" \in DOMAIN mcp
  /\ mcp.mode = "sse"
  /\ Len(mcp.transports) < MaxSessions
  /\ mcp' = [mcp EXCEPT !.transports = Append(@, Invalid)]
  /\ UNCHANGED <<now, request, signer, tamper, options, result, phase, answered>>

\* app.post("/mcp/messages"): a tool call for the session of the transport.
appPostMcpMessages(transport, headers) ==
  /\ mcp # NoProcess /\ "pending" \in DOMAIN mcp
  /\ mcp.mode = "sse"
  /\ transport \in 1..Len(mcp.transports)
  /\ Len(mcp.pending) + Len(mcp.handled) < MaxMessages
  /\ LET auth == agentAuthMiddleware(headers)
     IN  mcp' = [mcp EXCEPT !.transports[transport] = auth,
                            !.currentTransport = transport,
                            !.pending = Append(@, [transport |-> transport, auth |-> auth])]
  /\ UNCHANGED <<now, request, signer, tamper, options, result, phase, answered>>

\* app.all("/mcp"): a tool call over the one HTTP transport.
appAllMcp(headers) ==
  /\ mcp # NoProcess /\ "pending" \in DOMAIN mcp
  /\ mcp.mode = "http"
  /\ Len(mcp.pending) + Len(mcp.handled) < MaxMessages
  /\ LET auth == agentAuthMiddleware(headers)
     IN  mcp' = [mcp EXCEPT !.transports[1] = auth,
                            !.currentTransport = 1,
                            !.pending = Append(@, [transport |-> 1, auth |-> auth])]
  /\ UNCHANGED <<now, request, signer, tamper, options, result, phase, answered>>

\* The handler of a tool starts for the pending call i; its first
\* statement is const auth = getAuthForCurrentRequest().
toolHandler(i) ==
  /\ mcp # NoProcess /\ "pending" \in DOMAIN mcp
  /\ i \in 1..Len(mcp.pending)
  /\ LET getAuthForCurrentRequest ==
           IF mcp.currentTransport = 0 THEN Invalid
           ELSE mcp.transports[mcp.currentTransport]
     IN  mcp' = [mcp EXCEPT !.pending = SubSeq(@, 1, i - 1) \o SubSeq(@, i + 1, Len(@)),
                            !.handled = Append(@, [auth |-> mcp.pending[i].auth,
                                                   read |-> getAuthForCurrentRequest])]
  /\ UNCHANGED <<now, request, signer, tamper, options, result, phase, answered>>

NextServer ==
  \/ \E TRANSPORT_MODE \in {"http", "sse"} : listen(TRANSPORT_MODE)
  \/ appGetMcpSse
  \/ \E transport \in 1..MaxSessions,
        headers \in {NoHeaders} \cup { ClientHeaders(token, FreshPayload(now)) : token \in Keys }
                      \cup { [ClientHeaders(Token(1), FreshPayload(now)) EXCEPT !.address = deriveAddress(Token(2)).val] } :
       appPostMcpMessages(transport, headers)
  \/ \E headers \in {NoHeaders} \cup { ClientHeaders(token, FreshPayload(now)) : token \in Keys }
                      \cup { [ClientHeaders(Token(1), FreshPayload(now)) EXCEPT !.address = deriveAddress(Token(2)).val] } :
       appAllMcp(headers)
  \/ \E i \in 1..MaxMessages : toolHandler(i)

SpecServer == Init /\ [][NextServer]_vars

(***************************************************************************)
(* Properties of verify, under Spec                                        *)
(***************************************************************************)
\* The freshness window of the last verify call.
Window == IF "freshness" \in DOMAIN options THEN options.freshness ELSE 60000
\* The request is the one the client built, and verify has answered it.
Honest == answered /\ phase = "sent" /\ tamper = Untampered
\* The timestamp of the payload the client signed, as new Date reads it.
SignedTime == DateGetTime(GetProperty(signer.payload, TimestampKey).val)
\* The client signed an object whose timestamp parses to a time.
Timed == signer.payload.t = "obj" /\ ~IsNaN(SignedTime)
\* |now - T| for the signed timestamp T.
Age == IF now >= SignedTime[1] THEN now - SignedTime[1] ELSE SignedTime[1] - now
\* The timestamp of the payload header of the request, as new Date reads it.
RequestTime ==
  DateGetTime(GetProperty(JSONparse(fromBase64(request.payload)).val, TimestampKey).val)

\* C1: on every accepted request the returned agentauth_id is
\* generateId(deriveAddress(k)) for the key k that signed the payload, in
\* whatever letter case the address header was sent.
IdOfSigningKey ==
  answered /\ result.val.valid
    => result.val.agentauth_id = generateId(deriveAddress(signer.token).val)

\* C2: on every accepted request payload.timestamp parses to a time T with
\* |now - T| no greater than the freshness window; a payload without a
\* timestamp that parses is never accepted.
AcceptedIsTimed ==
  answered /\ result.val.valid
    => /\ ~IsNaN(RequestTime)
       /\ (IF now >= RequestTime[1] THEN now - RequestTime[1]
                                    ELSE RequestTime[1] - now) <= Window

\* C3: a correctly signed request whose age |now - T| equals the freshness
\* window is rejected, and one whose age is a millisecond less is accepted.
EdgeOfWindowRejected ==
  Honest /\ Timed
    => /\ Age = Window => result = Ret(Invalid)
       /\ Age = Window - 1 => result.val.valid

\* C4: a correctly signed request with a timestamp T that parses is
\* rejected whenever |now - T| exceeds options.freshness, or 60000 ms when
\* the option is omitted, for T in the past and in the future.
StaleRejected ==
  Honest /\ Timed /\ Age > Window => result = Ret(Invalid)
\* A request signed for a time more than the default window ahead of the
\* verifier's clock was rejected.
StaleRejectedWitness ==
  /\ Honest /\ Timed
  /\ "freshness" \notin DOMAIN options
  /\ SignedTime[1] - now > 60000
  /\ result = Ret(Invalid)

FailuresAlike ==
  answered => DOMAIN result.val = (IF result.val.valid THEN {"valid", "agentauth_id"}
                                                       ELSE {"valid"})
\* A request sent with another agent's address was answered {valid: false}.
FailuresAlikeWitness ==
  /\ answered
  /\ tamper = <<"address", "wrongAddress">>
  /\ DOMAIN result.val = {"valid"} /\ ~result.val.valid

SignedSignature == signPayload(signer.payload, signer.token).val
\* The parts r, s and recovery id of a signature text, in lower case.
PartsOf(x) == <<toLowerCase(SubSeq(x, 3, 66)), toLowerCase(SubSeq(x, 67, 130)),
                toLowerCase(SubSeq(x, 131, 132))>>
\* The signature of the triple has another length than the signed one, or
\* it is '0x' and 130 hexadecimal digits that differ from the signed ones
\* in exactly one of r, s and the recovery id.
OnePartChanged ==
  \/ Len(request.signature) # Len(SignedSignature)
  \/ /\ startsWith(request.signature, <<"0", "x">>)
     /\ AllHex(DropFirst(request.signature, 2))
     /\ Cardinality({ i \in 1..3 :
                      PartsOf(request.signature)[i] # PartsOf(SignedSignature)[i] }) = 1
\* The address of the triple differs from the signer's in more than letter
\* case.
OtherAddress == toLowerCase(request.address) # toLowerCase(deriveAddress(signer.token).val)
\* The payload of the triple serializes to another text than the signed one.
OtherPayload == JSONstringify(request.payload) # JSONstringify(signer.payload)

\* C8: verifySignature(signPayload(p, k), p, deriveAddress(k)) is true for
\* every payload p and every valid private key k in any accepted textual
\* form.
RoundTrip ==
  answered /\ tamper = Untampered => result = Ret(TRUE)
\* The round trip of a key written in upper-case hexadecimal without a
\* prefix, whose signature has the recovery id 1, gave true.
RoundTripWitness ==
  /\ answered /\ tamper = Untampered
  /\ \E i \in 1..NumKeys : signer.token = KeyText(i, "upperCase")
  /\ request.signature[Len(request.signature)] = "1"
  /\ result = Ret(TRUE)

MalformedSignatureRejected ==
  answered /\ ~(/\ Len(request.signature) = 132
                /\ startsWith(request.signature, <<"0", "x">>)
                /\ AllHex(DropFirst(request.signature, 2)))
    => result = Ret(FALSE)

\* The expected address of the triple is '0x' and 40 hexadecimal digits.
AddressWellFormed ==
  /\ Len(request.address) = 42
  /\ SubSeq(request.address, 1, 2) = <<"0", "x">>
  /\ AllHex(DropFirst(request.address, 2))
\* The try block of verifySignature on the triple raises.
TripleRaises ==
  verifySignatureTry(request.signature, request.payload, request.address).threw

\* C11: verifySignature never propagates an exception; it returns a
\* boolean, and false when expectedAddress is not '0x' and 40 hexadecimal
\* characters and whenever parsing or public-key recovery raises.
NeverPropagates ==
  answered => /\ ~result.threw
              /\ result.val \in BOOLEAN
              /\ ~AddressWellFormed => result.val = FALSE
              /\ TripleRaises => result.val = FALSE
\* A signature whose r is out of range made the recovery raise, and
\* verifySignature returned false.
NeverPropagatesWitness ==
  /\ answered
  /\ tamper[1] = "signature"
  /\ AddressWellFormed /\ TripleRaises
  /\ result = Ret(FALSE)

SignedFresh ==
  /\ signer.payload.t = "obj"
  /\ Len(signer.payload.v) = 1
  /\ signer.payload.v[1][1] = TimestampKey

\* C13: the headers of generateFreshAuthHeaders(token) are accepted by
\* verify whenever the verifier's clock is within the freshness window of
\* the time of signing, with agentauth_id = generateId(deriveAddress(token)).
FreshHeadersAccepted ==
  Honest /\ SignedFresh /\ Timed /\ Age < Window
    => result = Ret(Valid(generateId(deriveAddress(signer.token).val)))
\* Headers signed some time before the call, less than the window, were
\* accepted.
FreshHeadersAcceptedWitness ==
  /\ Honest /\ SignedFresh /\ Timed
  /\ Age > 0 /\ Age < Window
  /\ now > SignedTime[1]
  /\ result.val.valid

\* The request is the one the client built, presented once more.
Replayed == phase = "sent" /\ tamper = <<"request", "replayed">>

ParsedKey == parsePrivateKey(signer.token)
\* The three accepted encodings of the 64 hexadecimal characters h.
Encodings(h) == { Encode(form, h) : form \in {"token", "0x", "bare"} }

\* C15: for the 64 hexadecimal characters h of an accepted text, the
\* encodings 'aa-' + h, '0x' + h and h give the same outcome of
\* deriveAddress, the same address and id of deriveFromToken, and the
\* same signature, which verifies against the address of each encoding.
EncodingsAgree ==
  answered /\ ~ParsedKey.threw =>
    \A text \in Encodings(ParsedKey.val) :
      /\ phase = "deriveAddress" => deriveAddress(text) = result
      /\ phase = "deriveFromToken" => deriveFromToken(text) = result
      /\ phase = "signPayload" =>
           /\ signPayload(signer.payload, text) = result
           /\ ~result.threw =>
                verifySignature(result.val, signer.payload, deriveAddress(text).val)
\* A payload was signed with the bare 64 characters, and the signature
\* verifies against the address of the 'aa-' token.
EncodingsAgreeWitness ==
  /\ phase = "signPayload" /\ ~result.threw
  /\ Len(signer.token) = KeyHexLength
  /\ verifySignature(result.val, signer.payload,
                     deriveAddress(<<"a", "a", "-">> \o signer.token).val)

\* The text is at most one recognised prefix and 64 hexadecimal characters.
Accepted(text) ==
  \E prefix \in {<<>>, <<"a", "a", "-">>, <<"0", "x">>} :
    /\ startsWith(text, prefix)
    /\ Len(text) = Len(prefix) + KeyHexLength
    /\ AllHex(DropFirst(text, Len(prefix)))
\* The scalar is one of a private key: not zero, and below the group order.
ValidScalar(h) == HexToScalar(h) >= 1 /\ HexToScalar(h) < CurveOrder

\* C16: parsePrivateKey returns the last 64 characters of a text that is
\* at most one prefix 'aa-' or '0x' followed by exactly 64 hexadecimal
\* characters of either case, whatever the scalar, and raises for every
\* other text.
ParseAcceptsExactly ==
  answered /\ phase = "parsePrivateKey" =>
    result = IF Accepted(signer.token)
               THEN Ret(DropFirst(signer.token, Len(signer.token) - KeyHexLength))
               ELSE Throw
\* A text of 64 hexadecimal characters whose scalar is zero or not below
\* the group order was parsed.
ParseAcceptsExactlyWitness ==
  /\ answered /\ phase = "parsePrivateKey"
  /\ ~result.threw
  /\ ~ValidScalar(result.val)

\* The 64 characters after the prefix of an accepted text.
KeyDigits(text) == DropFirst(text, Len(text) - KeyHexLength)
\* Two accepted texts denote the same scalar: their 64 hexadecimal
\* characters are the same when letter case is ignored.
SameScalar(a, b) ==
  /\ Accepted(a) /\ Accepted(b)
  /\ toLowerCase(KeyDigits(a)) = toLowerCase(KeyDigits(b))

\* C17: parsePrivateKey returns the identical 64 characters for any two
\* accepted texts of the same scalar, whatever their prefix and the letter
\* case of their hexadecimal characters.
ParseCanonical ==
  answered /\ phase = "parsePrivateKey" /\ ~result.threw =>
    \A text \in KeyInputs :
      SameScalar(text, signer.token) => parsePrivateKey(text) = result

\* The text given is no private key: it is malformed, or its scalar is
\* zero or not below the group order.
InvalidKey ==
  ~Accepted(signer.token) \/ ~ValidScalar(KeyDigits(signer.token))

\* C18: deriveAddress and signPayload raise for a key that is malformed,
\* zero, or not below the group order; neither returns an address or a
\* signature for it.
InvalidKeyRaises ==
  answered /\ phase \in {"deriveAddress", "signPayload"} /\ InvalidKey
    => result.threw
\* signPayload was given a well-formed text whose scalar is zero, or
\* deriveAddress one whose scalar is the group order or above, and raised.
InvalidKeyRaisesWitness ==
  /\ answered /\ Accepted(signer.token) /\ result.threw
  /\ \/ phase = "signPayload" /\ HexToScalar(KeyDigits(signer.token)) = 0
     \/ phase = "deriveAddress" /\ HexToScalar(KeyDigits(signer.token)) >= CurveOrder

\* C19: every record returned by generateIdentity, of the core and of the
\* SDK, has a token 'aa-' + 64 hexadecimal characters, the address
\* deriveAddress(token) written '0x' + 40 lower-case hexadecimal
\* characters, the id generateId(address), and deriveFromToken(token)
\* gives the same address and id.
IdentityConsistent ==
  answered /\ phase \in {"coreGenerateIdentity", "generateIdentity"} /\ ~result.threw =>
    /\ startsWith(result.val.agentauth_token, <<"a", "a", "-">>)
    /\ Len(result.val.agentauth_token) = 3 + KeyHexLength
    /\ AllHex(DropFirst(result.val.agentauth_token, 3))
    /\ deriveAddress(result.val.agentauth_token) = Ret(result.val.agentauth_address)
    /\ startsWith(result.val.agentauth_address, <<"0", "x">>)
    /\ Len(result.val.agentauth_address) = 2 + AddressHexLength
    /\ AllHex(DropFirst(result.val.agentauth_address, 2))
    /\ result.val.agentauth_address = toLowerCase(result.val.agentauth_address)
    /\ result.val.agentauth_id = generateId(result.val.agentauth_address)
    /\ deriveFromToken(result.val.agentauth_token)
         = Ret([agentauth_id |-> result.val.agentauth_id,
                agentauth_address |-> result.val.agentauth_address])
\* The SDK's generateIdentity returned a record, and deriveFromToken of
\* its token gives the id of the record.
IdentityConsistentWitness ==
  /\ answered /\ phase = "generateIdentity" /\ ~result.threw
  /\ ~deriveFromToken(result.val.agentauth_token).threw
  /\ deriveFromToken(result.val.agentauth_token).val.agentauth_id
       = result.val.agentauth_id

(***************************************************************************)
(* What the client sends, under Spec                                       *)
(***************************************************************************)
\* The text holds the part somewhere.
Contains(text, part) ==
  \E i \in 0..(Len(text) - Len(part)) : SubSeq(text, i + 1, i + Len(part)) = part
\* The request is the one generateFreshAuthHeaders built, as it was sent.
FreshRequest == phase = "sent" /\ tamper[1] \in {"none", "request"} /\ SignedFresh

\* C20: the headers of generateFreshAuthHeaders are the address of the
\* key, the signature and the base64 payload and nothing else; the payload
\* decodes to an object with the one field timestamp; no header, and not
\* the decoded payload, holds the token or the 64 characters of its key.
TokenNotSent ==
  FreshRequest =>
    /\ DOMAIN request = {"address", "signature", "payload"}
    /\ request.address = deriveAddress(signer.token).val
    /\ request.signature = signPayload(signer.payload, signer.token).val
    /\ JSONparse(fromBase64(request.payload)) = Ret(signer.payload)
    /\ \A name \in DOMAIN request :
         /\ ~Contains(request[name], signer.token)
         /\ ~Contains(toLowerCase(request[name]), toLowerCase(KeyDigits(signer.token)))
    /\ ~Contains(fromBase64(request.payload), KeyDigits(signer.token))
\* A request with fresh headers was sent and accepted.
TokenNotSentWitness ==
  /\ FreshRequest /\ answered
  /\ Len(signer.token) = 3 + KeyHexLength
  /\ Len(request.signature) = SignatureLength
  /\ result.val.valid

(***************************************************************************)
(* Properties of the proxy's requests, under SpecFetch                     *)
(***************************************************************************)
\* A request was sent while a wrapper's interceptor was in place, that is
\* while a token was configured.
SentWithToken == mcp.sent # <<>> /\ mcp.sent[3] # 0

\* C21: every request sent while a token is configured carries the three
\* AgentAuth headers made for a configured token from the time of that
\* request.
FreshHeadersOnEveryRequest ==
  SentWithToken =>
    \E w \in DOMAIN mcp.wrappers :
      request = ClientHeaders(mcp.wrappers[w].token, FreshPayload(mcp.sent[2]))

\* Every wrapper that was constructed has been closed.
AllClosed ==
  /\ mcp.wrappers # <<>>
  /\ \A w \in DOMAIN mcp.wrappers : mcp.wrappers[w].closed

\* C29: once every constructed wrapper has been closed, in whatever order,
\* globalThis.fetch is the fetch of the runtime again and a request made
\* then carries no AgentAuth header.
FetchRestored ==
  AllClosed =>
    /\ mcp.fetch = 0
    /\ mcp.sent # <<>> /\ mcp.sent[3] = mcp.fetch => request = NoHeaders

(***************************************************************************)
(* Properties of mcpProxy, under SpecPipe                                  *)
(***************************************************************************)
\* C22: every message is forwarded unchanged, once and in the order
\* received, in both directions: what was given to each transport's send
\* is what the other transport delivered.
ForwardedUnchanged ==
  mcp # NoProcess =>
    /\ mcp.sent.server = mcp.received.client
    /\ mcp.sent.client = mcp.received.server

\* C27: the transport whose onclose ran first is never closed by the
\* proxy, and close() is invoked once on the other transport, whatever
\* close events follow.
ClosePropagatesOnce ==
  mcp # NoProcess =>
    /\ mcp.first = "client" =>
         mcp.closeCalls = [client |-> 0, server |-> 1]
    /\ mcp.first = "server" =>
         mcp.closeCalls = [client |-> 1, server |-> 0]
    /\ mcp.first = "none" =>
         mcp.closeCalls = [client |-> 0, server |-> 0]
\* The local transport closed first, the close event of the remote
\* transport was delivered to its handler, and no event is left.
ClosePropagatesOnceWitness ==
  /\ mcp # NoProcess
  /\ mcp.first = "client"
  /\ mcp.handled.server >= 1
  /\ mcp.closing = {}
  /\ mcp.closeCalls.client = 0

(***************************************************************************)
(* Properties of the connect command, under SpecConnect                    *)
(***************************************************************************)
\* The command has tried a transport.
Connecting == mcp # NoProcess /\ mcp.attempts # <<>>
\* The command has a transport from connectToRemoteServer, or has exited.
ConnectEnded == mcp # NoProcess /\ mcp.pc \in {"connected", "exit"}
\* The transport a strategy tries first, and the other one.
Primary == IF mcp.transportStrategy \in {"http-first", "http-only"} THEN "http" ELSE "sse"
Secondary == IF Primary = "http" THEN "sse" ELSE "http"

\* C23: the first transport tried is the one the strategy names; with
\* http-first or sse-first the other transport is tried when that attempt
\* fails, and only then; with http-only or sse-only no other transport is
\* tried.
StrategyHonoured ==
  Connecting /\ ConnectEnded =>
    /\ mcp.attempts[1].transport = Primary
    /\ mcp.transportStrategy \in {"http-only", "sse-only"} => Len(mcp.attempts) = 1
    /\ mcp.transportStrategy \in {"http-first", "sse-first"} =>
         IF mcp.attempts[1].error = "none" THEN Len(mcp.attempts) = 1
         ELSE Len(mcp.attempts) = 2 /\ mcp.attempts[2].transport = Secondary

\* The token of the environment is one that deriveAddress rejects.
TokenRejected == ~Falsy(mcp.token) /\ deriveAddress(mcp.token).threw

ConnectTerminates ==
  /\ [](mcp # NoProcess =>
          /\ Len(mcp.attempts) <= 2
          /\ mcp.calls <= 3
          /\ Len(mcp.attempts) = 2 =>
               "falling-back-to-alternate-transport" \in mcp.recursionReasons)
  /\ <>ConnectEnded
\* After a fallback the second transport connected.
ConnectTerminatesWitness ==
  /\ mcp # NoProcess
  /\ mcp.pc = "connected"
  /\ Len(mcp.attempts) = 2

(***************************************************************************)
(* Properties of replays and of the stages of verify, under Spec           *)
(***************************************************************************)
\* The request holds the headers as the client built them.
AsSigned == phase = "sent" /\ tamper[1] \in {"none", "request"}
\* The request is older than the window w: now - T exceeds w.
Expired(w) == AsSigned /\ Timed /\ now - SignedTime[1] > w

\* C25: the clock never goes back, so a request that is older than a
\* window stays older than it for as long as it is presented; every
\* verify call on a request older than its window rejects it, and an
\* accepted presentation has |now - T| within the window.
ReplayExpires ==
  /\ [][/\ now' >= now
        /\ \A options_ \in OptionSets :
             LET w == IF "freshness" \in DOMAIN options_
                        THEN options_.freshness ELSE SIXTY_SECONDS_IN_MS
             IN  Expired(w) /\ AsSigned' /\ request' = request /\ signer' = signer
                   => Expired(w)']_vars
  /\ [](answered =>
          /\ Expired(Window) => result = Ret(Invalid)
          /\ AsSigned /\ Timed /\ result.val.valid => Age <= Window)
\* A request was presented again when it was older than the window, and
\* was rejected.
ReplayExpiresWitness ==
  /\ Replayed /\ answered
  /\ Expired(Window)
  /\ result = Ret(Invalid)

\* The first stage of verify on the request, as it would end on its own.
HeaderMissing ==
  Falsy(request.address) \/ Falsy(request.signature) \/ Falsy(request.payload)
\* The freshness check on a decoded payload, as it would end on its own.
FreshnessPassed(payload) ==
  /\ ~GetProperty(payload, TimestampKey).threw
  /\ LET requestTimestamp == DateGetTime(GetProperty(payload, TimestampKey).val)
     IN  IsNaN(requestTimestamp)
         \/ (IF now >= requestTimestamp[1] THEN now - requestTimestamp[1]
                                           ELSE requestTimestamp[1] - now) <= Window

\* C26: a request that fails a stage is rejected there, without an
\* identifier, whatever the later stages would say; an identifier is
\* returned only when the headers are present, the payload decodes,
\* verifySignature returned true and the freshness check passed, and it
\* is generateId of an address of the shape '0x' + 40 hex characters.
StagesGateId ==
  answered =>
    IF HeaderMissing THEN result = Ret(Invalid)
    ELSE LET decoded == JSONparse(fromBase64(request.payload))
         IN  IF decoded.threw THEN result = Ret(Invalid)
             ELSE IF ~verifySignature(request.signature, decoded.val, request.address)
               THEN result = Ret(Invalid)
             ELSE IF ~FreshnessPassed(decoded.val) THEN result = Ret(Invalid)
             ELSE /\ AddressWellFormed
                  /\ result = Ret(Valid(generateId(request.address)))
\* A request whose address header was changed in letter case was accepted
\* with the identifier of the header as sent.
StagesGateIdWitness ==
  /\ answered /\ tamper[1] = "address"
  /\ result.val.valid
  /\ AddressWellFormed
  /\ result.val.agentauth_id = generateId(request.address)

====
